---- MODULE Spec2Model ----
(***************************************************************************)
(* TreeStore (src/src/stores/__tests__/TreeStore.spec.ts, lines 228-414):   *)
(* a flat collection of nodes {id, parent, label} related by parent        *)
(* references, with the actions initialize, addItem, removeItem and        *)
(* updateItem and the queries getItemById, getChildren, getAllChildren and *)
(* getAllParents.                                                          *)
(* IndexPage (src/src/pages/IndexPage.vue, lines 11-259): the page that    *)
(* seeds the store, edits the collection and keeps the undo/redo history.  *)
(***************************************************************************)
EXTENDS Integers, Sequences, FiniteSets, TLC

(***************************************************************************)
(* Bounds of the model.                                                    *)
(***************************************************************************)
\* numeric ids and parents submitted by a caller range over 0..MaxNum
MaxNum == 1
\* string ids and parents submitted by a caller
StrIds == {"2"}
\* labels submitted by a caller
Labels == {"a", "b"}

(***************************************************************************)
(* JavaScript values: null, undefined, numbers and strings.  Two values    *)
(* are equal as records exactly when they are === in JavaScript.           *)
(***************************************************************************)
Null == [t |-> "null", n |-> 0, s |-> ""]
Undefined == [t |-> "undefined", n |-> 0, s |-> ""]
Num(n) == [t |-> "number", n |-> n, s |-> ""]
Str(s) == [t |-> "string", n |-> 0, s |-> s]

Digits == <<"0", "1", "2", "3", "4", "5", "6", "7", "8", "9">>

RECURSIVE NumberToString(_)
NumberToString(n) ==
    IF n < 10 THEN Digits[n + 1]
    ELSE NumberToString(n \div 10) \o Digits[(n % 10) + 1]

\* String(v) of JavaScript, for the values a caller can submit
String(v) ==
    CASE v.t = "number" -> NumberToString(v.n)
      [] v.t = "string" -> v.s
      [] v.t = "null" -> "null"
      [] OTHER -> "undefined"

\* the truthiness test of `item.parent ? ... : null`
Truthy(v) ==
    CASE v.t = "number" -> v.n # 0
      [] v.t = "string" -> v.s # ""
      [] OTHER -> FALSE

\* the ids and parents a caller can submit: number | string (| null)
RawIds == {Num(n) : n \in 0..MaxNum} \cup {Str(s) : s \in StrIds}
RawParents == {Null} \cup RawIds
RawItems == [id : RawIds, parent : RawParents, label : Labels]

\* { ...item, id: String(item.id), parent: item.parent ? String(item.parent) : null }
NormalizeItem(item) ==
    [id |-> Str(String(item.id)),
     parent |-> IF Truthy(item.parent) THEN Str(String(item.parent)) ELSE Null,
     label |-> item.label]

(***************************************************************************)
(* Getters.                                                                *)
(***************************************************************************)
\* the value find() returns when no element matches
NoItem == [id |-> Undefined, parent |-> Undefined, label |-> ""]

\* state.items.find(item => item.id === id)
getItemById(its, id) ==
    IF \E i \in 1..Len(its) : its[i].id = id
    THEN its[CHOOSE i \in 1..Len(its) :
                 /\ its[i].id = id
                 /\ \A j \in 1..(i - 1) : its[j].id # id]
    ELSE NoItem

\* getChildren with the children in reverse order
getChildren_Reversed(its, id) ==
    LET found == SelectSeq(its, LAMBDA it : it.parent = id)
    IN  [p \in 1..Len(found) |-> found[Len(found) + 1 - p]]

\* state.items.filter(item => item.parent === id)
getChildren(its, id) == SelectSeq(its, LAMBDA it : it.parent = id)

(***************************************************************************)
(* State.                                                                  *)
(***************************************************************************)
VARIABLES
    items,  \* state.items: the collection, in insertion order
    last,   \* the last call made on the store: operation, argument,
            \* reported failure and the collection before the call
    returned, \* the value the last call returned
    history,  \* the page's history: snapshots of the collection
    historyIndex, \* the page's cursor in history, counted from 0
    timers,   \* the callbacks passed to setTimeout that have not run yet,
              \* in the order in which they were scheduled
    watcherQueued, \* the callback of the page's watch on the collection is
              \* queued and has not run yet
    created   \* the number of ids the page has generated

\* the state of the page (src/src/pages/IndexPage.vue)
pageVars == <<history, historyIndex, timers, watcherQueued, created>>

vars == <<items, last, returned, history, historyIndex, timers, watcherQueued,
          created>>

(***************************************************************************)
(* Recursive traversals.  JavaScript recursion that never returns ends in  *)
(* "RangeError: Maximum call stack size exceeded".  A traversal that is    *)
(* more than Len(its) calls deep has visited some node twice and so never  *)
(* returns: the operators below carry the remaining depth, and the         *)
(* ...Overflows predicates say that the depth is exhausted.                *)
(***************************************************************************)
CallDepth(its) == Len(its) + 1

\* getAllChildren in pre-order: each child pushed with its descendants
RECURSIVE getAllChildrenFrom_PreOrder(_, _, _)
getAllChildrenFrom_PreOrder(its, id, depth) ==
    IF depth = 0 THEN <<>>
    ELSE LET children == getChildren(its, id)
             result[i \in 0..Len(children)] ==
                 IF i = 0 THEN <<>>
                 ELSE result[i - 1] \o <<children[i]>>
                          \o getAllChildrenFrom_PreOrder(its, children[i].id,
                                                         depth - 1)
         IN  result[Len(children)]

\* getAllChildren without the recursion: the direct children alone
getAllChildrenFrom_DirectOnly(its, id, depth) ==
    IF depth = 0 THEN <<>> ELSE getChildren(its, id)

RECURSIVE getAllChildrenFrom(_, _, _)
getAllChildrenFrom(its, id, depth) ==
    IF depth = 0 THEN <<>>
    ELSE LET children == getChildren(its, id)
             \* result after the first i iterations of children.forEach
             result[i \in 0..Len(children)] ==
                 IF i = 0 THEN children
                 ELSE result[i - 1]
                          \o getAllChildrenFrom(its, children[i].id, depth - 1)
         IN  result[Len(children)]

RECURSIVE getAllChildrenDeeper(_, _, _)
getAllChildrenDeeper(its, id, depth) ==
    IF depth = 0 THEN TRUE
    ELSE LET children == getChildren(its, id)
         IN  \E i \in 1..Len(children) :
                 getAllChildrenDeeper(its, children[i].id, depth - 1)

getAllChildrenOverflows(its, id) == getAllChildrenDeeper(its, id, CallDepth(its))
getAllChildren(its, id) == getAllChildrenFrom(its, id, CallDepth(its))

\* getAllParents with the farthest ancestor first
RECURSIVE getAllParentsFrom_FarthestFirst(_, _, _)
getAllParentsFrom_FarthestFirst(its, id, depth) ==
    IF depth = 0 THEN <<>>
    ELSE LET item == getItemById(its, id)
         IN  IF item = NoItem \/ ~Truthy(item.parent) THEN <<>>
             ELSE LET parent == getItemById(its, item.parent)
                  IN  IF parent = NoItem THEN <<>>
                      ELSE getAllParentsFrom_FarthestFirst(its, parent.id,
                                                           depth - 1)
                               \o <<parent>>

\* getAllParents without the test of the parent found: a parent that does
\* not resolve is put in the result
RECURSIVE getAllParentsFrom_NoParentTest(_, _, _)
getAllParentsFrom_NoParentTest(its, id, depth) ==
    IF depth = 0 THEN <<>>
    ELSE LET item == getItemById(its, id)
         IN  IF item = NoItem \/ ~Truthy(item.parent) THEN <<>>
             ELSE LET parent == getItemById(its, item.parent)
                  IN  IF parent = NoItem THEN <<parent>>
                      ELSE <<parent>>
                               \o getAllParentsFrom_NoParentTest(its, parent.id,
                                                                 depth - 1)

RECURSIVE getAllParentsFrom(_, _, _)
getAllParentsFrom(its, id, depth) ==
    IF depth = 0 THEN <<>>
    ELSE LET item == getItemById(its, id)
         IN  IF item = NoItem \/ ~Truthy(item.parent) THEN <<>>
             ELSE LET parent == getItemById(its, item.parent)
                  IN  IF parent = NoItem THEN <<>>
                      ELSE <<parent>>
                               \o getAllParentsFrom(its, parent.id, depth - 1)

RECURSIVE getAllParentsDeeper(_, _, _)
getAllParentsDeeper(its, id, depth) ==
    IF depth = 0 THEN TRUE
    ELSE LET item == getItemById(its, id)
         IN  IF item = NoItem \/ ~Truthy(item.parent) THEN FALSE
             ELSE LET parent == getItemById(its, item.parent)
                  IN  IF parent = NoItem THEN FALSE
                      ELSE getAllParentsDeeper(its, parent.id, depth - 1)

getAllParentsOverflows(its, id) == getAllParentsDeeper(its, id, CallDepth(its))
getAllParents(its, id) == getAllParentsFrom(its, id, CallDepth(its))

(***************************************************************************)
(* Actions of the store, as functions from the collection and the argument *)
(* to the reported failure ("none" when the call returns) and the          *)
(* collection after the call.  The failures are the thrown Errors, named   *)
(* as in the specification's taxonomy by their message.                    *)
(***************************************************************************)
Outcome(err, its) == [err |-> err, items |-> its]

\* this.items = items.map(item => ({...item, id: ..., parent: ...}))
initialize(rawItems) == [i \in 1..Len(rawItems) |-> NormalizeItem(rawItems[i])]

\* addItem without the check for an existing id
addItem_NoDuplicateCheck(its, item) ==
    LET newItem == NormalizeItem(item)
    IN  IF newItem.parent # Null /\ getItemById(its, newItem.parent) = NoItem
        THEN Outcome("ParentNotFoundError", its)
        ELSE Outcome("none", Append(its, newItem))

\* addItem with the parent checked before the id
addItem_ParentCheckedFirst(its, item) ==
    LET newItem == NormalizeItem(item)
    IN  IF newItem.parent # Null /\ getItemById(its, newItem.parent) = NoItem
        THEN Outcome("ParentNotFoundError", its)
        ELSE IF getItemById(its, newItem.id) # NoItem
        THEN Outcome("DuplicateIdError", its)
        ELSE Outcome("none", Append(its, newItem))

addItem(its, item) ==
    LET newItem == NormalizeItem(item)
    IN  IF getItemById(its, newItem.id) # NoItem
        THEN Outcome("DuplicateIdError", its)
        ELSE IF newItem.parent # Null /\ getItemById(its, newItem.parent) = NoItem
        THEN Outcome("ParentNotFoundError", its)
        ELSE Outcome("none", Append(its, newItem))

\* removeItem that removes the node alone, without its descendants
removeItem_NoCascade(its, id) ==
    IF getItemById(its, id) = NoItem
    THEN Outcome("NotFoundError", its)
    ELSE Outcome("none", SelectSeq(its, LAMBDA it : it.id # id))

\* removeItem that removes the node and its direct children only
removeItem_DirectChildrenOnly(its, id) ==
    IF getItemById(its, id) = NoItem
    THEN Outcome("NotFoundError", its)
    ELSE Outcome("none",
                 SelectSeq(its, LAMBDA it : it.id # id /\ it.parent # id))

removeItem(its, id) ==
    IF getItemById(its, id) = NoItem
    THEN Outcome("NotFoundError", its)
    ELSE IF getAllChildrenOverflows(its, id)
    THEN Outcome("RangeError", its)
    ELSE LET allChildren == getAllChildren(its, id)
             \* this.items after the first i iterations of allChildren.forEach
             kept[i \in 0..Len(allChildren)] ==
                 IF i = 0 THEN its
                 ELSE SelectSeq(kept[i - 1],
                                LAMBDA it : it.id # allChildren[i].id)
         IN  Outcome("none",
                     SelectSeq(kept[Len(allChildren)], LAMBDA it : it.id # id))

\* updateItem that replaces the node before it checks for a cycle
updateItem_ReplaceBeforeCycleCheck(its, updatedItem) ==
    LET newItem == NormalizeItem(updatedItem)
        existingItem == getItemById(its, newItem.id)
        parentChanges == newItem.parent # existingItem.parent /\ newItem.parent # Null
        allParents == getAllParents(its, existingItem.id)
        replaced == [i \in 1..Len(its) |->
                        IF its[i].id = newItem.id THEN newItem ELSE its[i]]
    IN  IF existingItem = NoItem
        THEN Outcome("NotFoundError", its)
        ELSE IF parentChanges /\ getItemById(its, newItem.parent) = NoItem
        THEN Outcome("NewParentNotFoundError", its)
        ELSE IF parentChanges /\ getAllParentsOverflows(its, existingItem.id)
        THEN Outcome("RangeError", its)
        ELSE IF /\ parentChanges
                /\ \E k \in 1..Len(allParents) : allParents[k].id = newItem.parent
        THEN Outcome("CycleError", replaced)
        ELSE Outcome("none", replaced)

\* updateItem that returns silently when no node has the id
updateItem_IgnoresUnknownId(its, updatedItem) ==
    LET newItem == NormalizeItem(updatedItem)
        existingItem == getItemById(its, newItem.id)
        parentChanges == newItem.parent # existingItem.parent /\ newItem.parent # Null
        allParents == getAllParents(its, existingItem.id)
    IN  IF existingItem = NoItem
        THEN Outcome("none", its)
        ELSE IF parentChanges /\ getItemById(its, newItem.parent) = NoItem
        THEN Outcome("NewParentNotFoundError", its)
        ELSE IF parentChanges /\ getAllParentsOverflows(its, existingItem.id)
        THEN Outcome("RangeError", its)
        ELSE IF /\ parentChanges
                /\ \E k \in 1..Len(allParents) : allParents[k].id = newItem.parent
        THEN Outcome("CycleError", its)
        ELSE Outcome("none",
                     [i \in 1..Len(its) |->
                         IF its[i].id = newItem.id THEN newItem ELSE its[i]])

\* updateItem without the search of the new parent among the ancestors
updateItem_NoCycleCheck(its, updatedItem) ==
    LET newItem == NormalizeItem(updatedItem)
        existingItem == getItemById(its, newItem.id)
        parentChanges == newItem.parent # existingItem.parent /\ newItem.parent # Null
    IN  IF existingItem = NoItem
        THEN Outcome("NotFoundError", its)
        ELSE IF parentChanges /\ getItemById(its, newItem.parent) = NoItem
        THEN Outcome("NewParentNotFoundError", its)
        ELSE Outcome("none",
                     [i \in 1..Len(its) |->
                         IF its[i].id = newItem.id THEN newItem ELSE its[i]])

\* updateItem that checks a null new parent like any other new parent
updateItem_ChecksNullParent(its, updatedItem) ==
    LET newItem == NormalizeItem(updatedItem)
        existingItem == getItemById(its, newItem.id)
        parentChanges == newItem.parent # existingItem.parent
        allParents == getAllParents(its, existingItem.id)
    IN  IF existingItem = NoItem
        THEN Outcome("NotFoundError", its)
        ELSE IF parentChanges /\ getItemById(its, newItem.parent) = NoItem
        THEN Outcome("NewParentNotFoundError", its)
        ELSE IF parentChanges /\ getAllParentsOverflows(its, existingItem.id)
        THEN Outcome("RangeError", its)
        ELSE IF /\ parentChanges
                /\ \E k \in 1..Len(allParents) : allParents[k].id = newItem.parent
        THEN Outcome("CycleError", its)
        ELSE Outcome("none",
                     [i \in 1..Len(its) |->
                         IF its[i].id = newItem.id THEN newItem ELSE its[i]])

updateItem(its, updatedItem) ==
    LET newItem == NormalizeItem(updatedItem)
        existingItem == getItemById(its, newItem.id)
        parentChanges == newItem.parent # existingItem.parent /\ newItem.parent # Null
        allParents == getAllParents(its, existingItem.id)
    IN  IF existingItem = NoItem
        THEN Outcome("NotFoundError", its)
        ELSE IF parentChanges /\ getItemById(its, newItem.parent) = NoItem
        THEN Outcome("NewParentNotFoundError", its)
        ELSE IF parentChanges /\ getAllParentsOverflows(its, existingItem.id)
        THEN Outcome("RangeError", its)
        ELSE IF /\ parentChanges
                /\ \E k \in 1..Len(allParents) : allParents[k].id = newItem.parent
        THEN Outcome("CycleError", its)
        ELSE Outcome("none",
                     [i \in 1..Len(its) |->
                         IF its[i].id = newItem.id THEN newItem ELSE its[i]])

(***************************************************************************)
(* The forest invariant of the data model, stated on the parent references *)
(* themselves (not through the store's traversals).                        *)
(***************************************************************************)
IdsOf(its) == {its[i].id : i \in 1..Len(its)}

\* the ids reached from id by following k >= 1 parent references
RECURSIVE AncestorIds(_, _, _)
AncestorIds(its, id, k) ==
    IF k = 0 THEN {}
    ELSE LET up == {its[i].parent : i \in {j \in 1..Len(its) : its[j].id = id}}
                       \ {Null}
         IN  up \cup UNION {AncestorIds(its, p, k - 1) : p \in up}

\* a is a proper ancestor of id (id is a transitive descendant of a)
IsAncestor(its, a, id) == a \in AncestorIds(its, id, Len(its))

UniqueIds(its) == \A i, j \in 1..Len(its) : its[i].id = its[j].id => i = j
ParentsResolve(its) ==
    \A i \in 1..Len(its) : its[i].parent # Null => its[i].parent \in IdsOf(its)
Acyclic(its) == \A i \in 1..Len(its) : ~IsAncestor(its, its[i].id, its[i].id)
ValidForest(its) == UniqueIds(its) /\ ParentsResolve(its) /\ Acyclic(its)

(***************************************************************************)
(* The state machine: a store seeded by initialize with a valid forest,    *)
(* then any sequence of addItem, removeItem and updateItem calls.          *)
(***************************************************************************)
\* the ids of the store: the string forms of the ids a caller can submit
NodeIds == {Str(String(r)) : r \in RawIds}
\* the arguments of initialize: as many items as there are distinct ids
SeedInputs == UNION {[1..k -> RawItems] : k \in 0..Cardinality(NodeIds)}
NoArg == [id |-> Null, parent |-> Null, label |-> ""]
\* the argument of a call that takes an id alone
IdArg(id) == [id |-> id, parent |-> Null, label |-> ""]
\* what a call that returns nothing, or throws, leaves as its value
Void == <<>>

\* the record of a call: its operation, its argument, the failure it reported
\* and the collection it was made on
Called(op, arg, err) == [op |-> op, arg |-> arg, err |-> err, before |-> items]

\* the page before it is mounted: const history = ref([]), historyIndex =
\* ref(0), no timer set, no watcher callback queued
Unmounted ==
    /\ history = <<>>
    /\ historyIndex = 0
    /\ timers = <<>>
    /\ watcherQueued = FALSE
    /\ created = 0

Init ==
    \E rawItems \in SeedInputs :
        /\ ValidForest(initialize(rawItems))
        /\ items = initialize(rawItems)
        /\ last = [op |-> "initialize", arg |-> NoArg, err |-> "none",
                   before |-> <<>>]
        /\ Unmounted
        /\ returned = Void

AddItem ==
    \E item \in RawItems :
        LET out == addItem(items, item)
        IN  /\ items' = out.items
            /\ last' = Called("addItem", item, out.err)
            /\ UNCHANGED pageVars
            /\ returned' = Void

RemoveItem ==
    \E id \in NodeIds :
        LET out == removeItem(items, id)
        IN  /\ items' = out.items
            /\ last' = Called("removeItem", IdArg(id), out.err)
            /\ UNCHANGED pageVars
            /\ returned' = Void

UpdateItem ==
    \E item \in RawItems :
        LET out == updateItem(items, item)
        IN  /\ items' = out.items
            /\ last' = Called("updateItem", item, out.err)
            /\ UNCHANGED pageVars
            /\ returned' = Void

Next == AddItem \/ RemoveItem \/ UpdateItem

Spec == Init /\ [][Next]_vars

(***************************************************************************)
(* The queries: a store seeded by initialize with a collection of distinct *)
(* ids without a cycle, whose parents need not resolve (initialize does    *)
(* not validate), then any sequence of getItemById, getChildren,           *)
(* getAllChildren and getAllParents calls.                                 *)
(***************************************************************************)
\* the ids of the seeded nodes, and an id that no node has
QueryIds == {Str("1"), Str("2"), Str("3"), Str("4")}
MissingId == Str("9")
QueryItems == [id : QueryIds, parent : {Null, MissingId} \cup QueryIds,
               label : {"a"}]
QueryInputs == UNION {[1..k -> QueryItems] : k \in 0..Cardinality(QueryIds)}

QueryInit ==
    \E rawItems \in QueryInputs :
        /\ UniqueIds(initialize(rawItems))
        /\ Acyclic(initialize(rawItems))
        /\ items = initialize(rawItems)
        /\ last = [op |-> "initialize", arg |-> NoArg, err |-> "none",
                   before |-> <<>>]
        /\ Unmounted
        /\ returned = Void

GetItemById ==
    \E id \in QueryIds \cup {MissingId} :
        /\ items' = items
        /\ last' = Called("getItemById", IdArg(id), "none")
        /\ UNCHANGED pageVars
        /\ returned' = getItemById(items, id)

\* getChildren that takes the children out of the collection
GetChildren_TakesOut ==
    \E id \in QueryIds \cup {MissingId} :
        /\ items' = SelectSeq(items, LAMBDA it : it.parent # id)
        /\ last' = Called("getChildren", IdArg(id), "none")
        /\ UNCHANGED pageVars
        /\ returned' = getChildren(items, id)

GetChildren ==
    \E id \in QueryIds \cup {MissingId} :
        /\ items' = items
        /\ last' = Called("getChildren", IdArg(id), "none")
        /\ UNCHANGED pageVars
        /\ returned' = getChildren(items, id)

GetAllChildren ==
    \E id \in QueryIds \cup {MissingId} :
        /\ items' = items
        /\ last' = Called("getAllChildren", IdArg(id),
                          IF getAllChildrenOverflows(items, id)
                          THEN "RangeError" ELSE "none")
        /\ UNCHANGED pageVars
        /\ returned' = IF getAllChildrenOverflows(items, id)
                       THEN Void ELSE getAllChildren(items, id)

GetAllParents ==
    \E id \in QueryIds \cup {MissingId} :
        /\ items' = items
        /\ last' = Called("getAllParents", IdArg(id),
                          IF getAllParentsOverflows(items, id)
                          THEN "RangeError" ELSE "none")
        /\ UNCHANGED pageVars
        /\ returned' = IF getAllParentsOverflows(items, id)
                       THEN Void ELSE getAllParents(items, id)

QueryNext == GetItemById \/ GetChildren \/ GetAllChildren \/ GetAllParents

QuerySpec == QueryInit /\ [][QueryNext]_vars

(***************************************************************************)
(* Bulk load: a store constructed empty, then any sequence of initialize   *)
(* calls, with items whose ids may repeat and whose parents need not       *)
(* resolve and may form cycles, and getItemById calls.                     *)
(***************************************************************************)
\* the items of a bulk load
LoadItems == [id : RawIds, parent : RawParents, label : {"a"}]
\* the arguments of initialize: sequences short enough to hold a repeated id
\* next to another one
LoadInputs == UNION {[1..k -> LoadItems] : k \in 0..2}

\* state: (): TreeState => ({ items: [] })
LoadInit ==
    /\ items = <<>>
    /\ last = [op |-> "defineStore", arg |-> NoArg, err |-> "none",
               before |-> <<>>]
    /\ Unmounted
    /\ returned = Void

Initialize ==
    \E rawItems \in LoadInputs :
        /\ items' = initialize(rawItems)
        /\ last' = Called("initialize", rawItems, "none")
        /\ UNCHANGED pageVars
        /\ returned' = Void

GetLoadedItemById ==
    \E id \in NodeIds \cup {MissingId} :
        /\ items' = items
        /\ last' = Called("getItemById", IdArg(id), "none")
        /\ UNCHANGED pageVars
        /\ returned' = getItemById(items, id)

LoadNext == Initialize \/ GetLoadedItemById

LoadSpec == LoadInit /\ [][LoadNext]_vars

(***************************************************************************)
(* The page (src/src/pages/IndexPage.vue): it seeds the store on mount,    *)
(* edits the collection directly (addChild, removeItem, updateLabel),      *)
(* keeps the history of snapshots with its cursor, and watches the         *)
(* collection.  The buttons are clicked once the page is mounted.  A click *)
(* runs to its end; the callback of the watcher is queued by a change of   *)
(* the collection and runs before the next click or timer; the callbacks   *)
(* of setTimeout run one at a time, in the order in which they were        *)
(* scheduled (they all have the delay 400).                                *)
(***************************************************************************)
\* no edit is made on a history of MaxHistory entries or more, and no undo or
\* redo on a history of more than MaxHistory entries
MaxHistory == 4
\* no removeItem is made while MaxTimers callbacks or more wait
MaxTimers == 1
\* the page generates at most MaxAdds ids
MaxAdds == 1
\* the texts typed into the input of a row
TypedLabels == {"x"}

\* const items: Item[] (labels "Айтем n" written "Item n")
initialItems ==
    << [id |-> Str("1"), parent |-> Null, label |-> "Item 1"],
       [id |-> Str("2"), parent |-> Str("1"), label |-> "Item 2"],
       [id |-> Str("3"), parent |-> Str("1"), label |-> "Item 3"],
       [id |-> Str("4"), parent |-> Str("2"), label |-> "Item 4"],
       [id |-> Str("5"), parent |-> Str("2"), label |-> "Item 5"],
       [id |-> Str("6"), parent |-> Str("2"), label |-> "Item 6"],
       [id |-> Str("7"), parent |-> Str("4"), label |-> "Item 7"],
       [id |-> Str("8"), parent |-> Str("4"), label |-> "Item 8"] >>

\* interface Item: a node with the optional flags isNew and isRemoving; a
\* flag that is absent is FALSE
Item(node, isNew) ==
    [id |-> node.id, parent |-> node.parent, label |-> node.label,
     isNew |-> isNew, isRemoving |-> FALSE]

\* Date.now().toString() + Math.random().toString(36).slice(2, 6): the n-th
\* id generated, different from every other id
newId(n) == Str("new" \o NumberToString(n))

\* the position of the first item with this id, 0 when there is none
\* (findIndex, find)
findIndex(its, id) ==
    IF \E i \in 1..Len(its) : its[i].id = id
    THEN CHOOSE i \in 1..Len(its) :
             /\ its[i].id = id
             /\ \A j \in 1..(i - 1) : its[j].id # id
    ELSE 0

\* pushHistory that keeps the entries after the cursor
pushHistory_NoTruncate(h, idx, its) ==
    [history |-> Append(h, its), historyIndex |-> Len(h)]

\* pushHistory that moves the cursor one entry on
pushHistory_CursorPlusOne(h, idx, its) ==
    LET kept == IF idx < Len(h) - 1 THEN SubSeq(h, 1, idx + 1) ELSE h
    IN  [history |-> Append(kept, its), historyIndex |-> idx + 1]

\* pushHistory on the history h with the cursor idx and the collection its
pushHistory(h, idx, its) ==
    LET kept == IF idx < Len(h) - 1 THEN SubSeq(h, 1, idx + 1) ELSE h
        pushed == Append(kept, its)
    IN  [history |-> pushed, historyIndex |-> Len(pushed) - 1]

\* treeStore.resetItems(state): the collection becomes a copy of the snapshot
resetItems(state) == state

\* the outcome of undo and redo: the cursor, the collection, and whether the
\* collection was assigned
Moved(idx, its, assigned) ==
    [historyIndex |-> idx, items |-> its, assigned |-> assigned]

undo(h, idx, its) ==
    IF idx > 0
    THEN IF idx - 1 < Len(h)
         THEN Moved(idx - 1, resetItems(h[idx]), TRUE)
         ELSE Moved(idx - 1, its, FALSE)
    ELSE Moved(idx, its, FALSE)

\* redo without the test of the cursor
redo_NoGuard(h, idx, its) ==
    IF idx + 1 < Len(h)
    THEN Moved(idx + 1, resetItems(h[idx + 2]), TRUE)
    ELSE Moved(idx + 1, its, FALSE)

redo(h, idx, its) ==
    IF idx < Len(h) - 1
    THEN IF idx + 1 >= 0
         THEN Moved(idx + 1, resetItems(h[idx + 2]), TRUE)
         ELSE Moved(idx + 1, its, FALSE)
    ELSE Moved(idx, its, FALSE)

\* removeRecursive that does not descend below the children
removeRecursive_ChildrenOnly(its, itemId, depth) ==
    LET children == SelectSeq(its, LAMBDA i : i.parent = itemId)
    IN  [k \in 1..Len(children) |-> children[k].id]
            \o (IF findIndex(its, itemId) # 0 THEN <<itemId>> ELSE <<>>)

\* removeRecursive(itemId): the ids it marks isRemoving and passes to
\* setTimeout, in that order: the children's first, then itemId when an item
\* has it
RECURSIVE removeRecursive(_, _, _)
removeRecursive(its, itemId, depth) ==
    IF depth = 0 THEN <<>>
    ELSE LET children == SelectSeq(its, LAMBDA i : i.parent = itemId)
             below[k \in 0..Len(children)] ==
                 IF k = 0 THEN <<>>
                 ELSE below[k - 1]
                          \o removeRecursive(its, children[k].id, depth - 1)
         IN  below[Len(children)]
                 \o (IF findIndex(its, itemId) # 0 THEN <<itemId>> ELSE <<>>)

\* the rows of the table, each with its buttons: the nodes that
\* buildTreeTableRows(null) reaches, that is those whose chain of parents
\* ends at null
Shown(its) == {id \in IdsOf(its) : AncestorIds(its, id, Len(its)) \subseteq IdsOf(its)}

\* a callback passed to setTimeout
Timer(fn, id) == [fn |-> fn, id |-> id]

\* the record of a click: as Called, with the cursor before the click,
\* whether no timer was waiting, and the click before it
NoClick == [op |-> "none", arg |-> NoArg, before |-> <<>>, index |-> 0,
            idle |-> TRUE]
Clicked(op, arg) ==
    [op |-> op, arg |-> arg, err |-> "none", before |-> items,
     index |-> historyIndex, idle |-> timers = <<>>,
     prev |-> [op |-> last.op, arg |-> last.arg, before |-> last.before,
               index |-> last.index, idle |-> last.idle]]

\* <script setup> has run: the store is empty, const history = ref([]),
\* const historyIndex = ref(0), the watcher is registered
PageInit ==
    /\ items = <<>>
    /\ Unmounted
    /\ last = [op |-> "setup", arg |-> NoArg, err |-> "none", before |-> <<>>,
               index |-> 0, idle |-> TRUE, prev |-> NoClick]
    /\ returned = Void

\* onMounted(() => { treeStore.initialize(items); pushHistory(); })
Mount ==
    /\ history = <<>>
    /\ LET seeded == initialize(initialItems)
           mounted == [i \in 1..Len(seeded) |-> Item(seeded[i], FALSE)]
           pushed == pushHistory(history, historyIndex, mounted)
       IN  /\ items' = mounted
           /\ history' = pushed.history
           /\ historyIndex' = pushed.historyIndex
    /\ watcherQueued' = TRUE
    /\ last' = Clicked("onMounted", NoArg)
    /\ returned' = Void
    /\ UNCHANGED <<timers, created>>

\* watch(() => treeStore.items, () => { if (!skipHistory) pushHistory(); },
\* { deep: true }), with skipHistory = false
Watcher ==
    /\ watcherQueued
    /\ LET pushed == pushHistory(history, historyIndex, items)
       IN  /\ history' = pushed.history
           /\ historyIndex' = pushed.historyIndex
    /\ watcherQueued' = FALSE
    /\ UNCHANGED <<items, last, returned, timers, created>>

AddChild ==
    \E parentId \in Shown(items) :
        /\ ~watcherQueued
        /\ Len(history) < MaxHistory
        /\ created < MaxAdds
        /\ LET newItem == Item([id |-> newId(created + 1), parent |-> parentId,
                                label |-> "New item"], TRUE)
               pushed == pushHistory(history, historyIndex, Append(items, newItem))
           IN  /\ items' = Append(items, newItem)
               /\ history' = pushed.history
               /\ historyIndex' = pushed.historyIndex
               /\ timers' = Append(timers, Timer("deleteIsNew", newItem.id))
        /\ watcherQueued' = TRUE
        /\ created' = created + 1
        /\ last' = Clicked("addChild", IdArg(parentId))
        /\ returned' = Void

PageRemoveItem ==
    \E id \in Shown(items) :
        /\ ~watcherQueued
        /\ Len(history) < MaxHistory
        /\ Len(timers) < MaxTimers
        /\ LET ids == removeRecursive(items, id, Len(items) + 1)
               marked == [i \in 1..Len(items) |->
                             IF \E k \in 1..Len(ids) :
                                    findIndex(items, ids[k]) = i
                             THEN [items[i] EXCEPT !.isRemoving = TRUE]
                             ELSE items[i]]
           IN  /\ items' = marked
               /\ timers' = timers \o [k \in 1..Len(ids) |-> Timer("remove", ids[k])]
               /\ watcherQueued' = (marked # items)
        /\ last' = Clicked("removeItem", IdArg(id))
        /\ returned' = Void
        /\ UNCHANGED <<history, historyIndex, created>>

UpdateLabel ==
    \E id \in Shown(items), newLabel \in TypedLabels :
        /\ ~watcherQueued
        /\ Len(history) < MaxHistory
        /\ LET idx == findIndex(items, id)
               labelled == [items EXCEPT ![idx].label = newLabel]
               pushed == pushHistory(history, historyIndex, labelled)
           IN  /\ items' = labelled
               /\ history' = pushed.history
               /\ historyIndex' = pushed.historyIndex
               /\ watcherQueued' = (labelled # items)
        /\ last' = Clicked("updateLabel", [id |-> id, parent |-> Null,
                                           label |-> newLabel])
        /\ returned' = Void
        /\ UNCHANGED <<timers, created>>

Undo ==
    /\ ~watcherQueued
    /\ history # <<>>
    /\ Len(history) <= MaxHistory
    /\ LET out == undo(history, historyIndex, items)
       IN  /\ historyIndex' = out.historyIndex
           /\ items' = out.items
           /\ watcherQueued' = out.assigned
    /\ last' = Clicked("undo", NoArg)
    /\ returned' = Void
    /\ UNCHANGED <<history, timers, created>>

Redo ==
    /\ ~watcherQueued
    /\ history # <<>>
    /\ Len(history) <= MaxHistory
    /\ LET out == redo(history, historyIndex, items)
       IN  /\ historyIndex' = out.historyIndex
           /\ items' = out.items
           /\ watcherQueued' = out.assigned
    /\ last' = Clicked("redo", NoArg)
    /\ returned' = Void
    /\ UNCHANGED <<history, timers, created>>

\* the callback of addChild's setTimeout: delete item.isNew on the item found
DeleteIsNew ==
    /\ ~watcherQueued
    /\ timers # <<>>
    /\ Head(timers).fn = "deleteIsNew"
    /\ LET idx == findIndex(items, Head(timers).id)
           cleared == IF idx # 0 THEN [items EXCEPT ![idx].isNew = FALSE]
                      ELSE items
       IN  /\ items' = cleared
           /\ watcherQueued' = (cleared # items)
    /\ timers' = Tail(timers)
    /\ UNCHANGED <<last, returned, history, historyIndex, created>>

\* the callback of removeRecursive's setTimeout: splice the item out when it
\* is still there, then pushHistory
RemoveLater ==
    /\ ~watcherQueued
    /\ timers # <<>>
    /\ Head(timers).fn = "remove"
    /\ LET newIdx == findIndex(items, Head(timers).id)
           spliced == [i \in 1..(Len(items) - 1) |->
                          IF i < newIdx THEN items[i] ELSE items[i + 1]]
           pushed == pushHistory(history, historyIndex, spliced)
       IN  IF newIdx # 0
           THEN /\ items' = spliced
                /\ history' = pushed.history
                /\ historyIndex' = pushed.historyIndex
                /\ watcherQueued' = TRUE
           ELSE UNCHANGED <<items, history, historyIndex, watcherQueued>>
    /\ timers' = Tail(timers)
    /\ UNCHANGED <<last, returned, created>>

PageNext ==
    \/ Mount
    \/ Watcher
    \/ AddChild
    \/ PageRemoveItem
    \/ UpdateLabel
    \/ Undo
    \/ Redo
    \/ DeleteIsNew
    \/ RemoveLater

PageSpec == PageInit /\ [][PageNext]_vars

(***************************************************************************)
(* The rows of the table: treeRows = buildTreeTableRows(null) and          *)
(* flatRows = renderRows(treeRows), computed on a store seeded with a      *)
(* valid forest, for any set of expanded rows.                             *)
(***************************************************************************)
\* what buildTreeTableRows returns with the counter it shares with its
\* callers: the rows, and idxOffset.value when it returns
Built(rows, value) == [rows |-> rows, value |-> value]

\* buildTreeTableRows(parentId, level, idxOffset) on the collection its, with
\* idxOffset.value = value: the children of a row are built before the row
\* takes its index (index: idxOffset.value++); the categories 'Группа' and
\* 'Элемент' are written "Group" and "Element"
RECURSIVE buildTreeTableRows(_, _, _, _, _)
buildTreeTableRows(its, parentId, level, value, depth) ==
    IF depth = 0 THEN Built(<<>>, value)
    ELSE LET found == SelectSeq(its, LAMBDA item : item.parent = parentId)
             mapped[k \in 0..Len(found)] ==
                 IF k = 0 THEN Built(<<>>, value)
                 ELSE LET item == found[k]
                          built == buildTreeTableRows(its, item.id, level + 1,
                                                      mapped[k - 1].value,
                                                      depth - 1)
                          row == [id |-> item.id,
                                  parent |-> item.parent,
                                  label |-> item.label,
                                  index |-> built.value,
                                  category |-> IF Len(built.rows) > 0
                                               THEN "Group" ELSE "Element",
                                  children |-> built.rows,
                                  level |-> level]
                      IN  Built(Append(mapped[k - 1].rows, row), built.value + 1)
         IN  mapped[Len(found)]

\* const treeRows = computed(() => buildTreeTableRows(null))
treeRows(its) == buildTreeTableRows(its, Null, 0, 1, Len(its) + 1).rows

\* renderRows(rows), with expanded.value the set of ids expanded
RECURSIVE renderRows(_, _)
renderRows(rows, expanded) ==
    LET result[k \in 0..Len(rows)] ==
            IF k = 0 THEN <<>>
            ELSE result[k - 1] \o <<rows[k]>>
                     \o (IF Len(rows[k].children) > 0 /\ rows[k].id \in expanded
                         THEN renderRows(rows[k].children, expanded)
                         ELSE <<>>)
    IN  result[Len(rows)]

\* the argument of a call that takes the set of expanded ids
ExpandedArg(expanded) == [id |-> Null, parent |-> Null, label |-> "",
                          expanded |-> expanded]

RowsInit == QueryInit /\ ParentsResolve(items)

TreeRows ==
    /\ items' = items
    /\ last' = Called("buildTreeTableRows", IdArg(Null), "none")
    /\ UNCHANGED pageVars
    /\ returned' = treeRows(items)

\* const flatRows = computed(() => renderRows(treeRows.value))
FlatRows ==
    \E expanded \in SUBSET IdsOf(items) :
        /\ items' = items
        /\ last' = Called("renderRows", ExpandedArg(expanded), "none")
        /\ UNCHANGED pageVars
        /\ returned' = renderRows(treeRows(items), expanded)

RowsNext == TreeRows \/ FlatRows

RowsSpec == RowsInit /\ [][RowsNext]_vars

TypeOK ==
    /\ items \in Seq([id : NodeIds \cup QueryIds,
                      parent : NodeIds \cup QueryIds \cup {Null, MissingId},
                      label : Labels])
    /\ last.err \in {"none", "DuplicateIdError", "ParentNotFoundError",
                     "NotFoundError", "NewParentNotFoundError", "CycleError",
                     "RangeError"}

(***************************************************************************)
(* Vocabulary of the properties.                                           *)
(***************************************************************************)
\* the id a submitted id denotes: its string form
IdOf(raw) == Str(String(raw))

\* the parent a submitted parent denotes: null stays null, every other
\* value is taken in its string form
ParentOf(raw) == IF raw = Null THEN Null ELSE Str(String(raw))

\* the transitive descendants of n
Descendants(its, n) == {id \in IdsOf(its) : IsAncestor(its, n, id)}

\* its without the nodes whose id is in gone, order kept
Without(its, gone) == SelectSeq(its, LAMBDA it : it.id \notin gone)

Failed == last.err # "none"
Unchanged == items = last.before

(***************************************************************************)
(* C1: no node is its own ancestor, in every state reached from a valid    *)
(* forest by addItem, removeItem and updateItem calls.                     *)
(***************************************************************************)
C1_Acyclic == Acyclic(items)

(***************************************************************************)
(* C2: in a valid forest, updateItem of node n with a transitive           *)
(* descendant of n as the new parent fails with CycleError and leaves the  *)
(* collection unchanged.                                                   *)
(***************************************************************************)
C2_DescendantAsParentFails ==
    (/\ last.op = "updateItem"
     /\ ValidForest(last.before)
     /\ last.arg.parent \in Descendants(last.before, IdOf(last.arg.id)))
    => (last.err = "CycleError" /\ Unchanged)

(***************************************************************************)
(* C3: updateItem of an existing node with its own id as the new parent,   *)
(* different from its current parent, fails with CycleError and leaves the *)
(* collection unchanged.                                                   *)
(***************************************************************************)
C3_SelfAsParentFails ==
    (/\ last.op = "updateItem"
     /\ IdOf(last.arg.id) \in IdsOf(last.before)
     /\ last.arg.parent = IdOf(last.arg.id)
     /\ getItemById(last.before, IdOf(last.arg.id)).parent # IdOf(last.arg.id))
    => (last.err = "CycleError" /\ Unchanged)

(***************************************************************************)
(* C4: every node's non-null parent is the id of a node of the collection, *)
(* in every state reached from a valid forest by addItem, removeItem and   *)
(* updateItem calls.                                                       *)
(***************************************************************************)
C4_ParentsResolve == ParentsResolve(items)

\* removeItem has removed a node together with a descendant
C4_Witness ==
    /\ last.op = "removeItem"
    /\ last.err = "none"
    /\ Descendants(last.before, last.arg.id) # {}
    /\ items # <<>>

(***************************************************************************)
(* C5: no two nodes of the collection have the same id, in every state     *)
(* reached from a collection with distinct ids by addItem, removeItem and  *)
(* updateItem calls.                                                       *)
(***************************************************************************)
C5_UniqueIds == UniqueIds(items)

\* addItem was called with a numeric id whose string form is already an id
C5_Witness ==
    /\ last.op = "addItem"
    /\ last.arg.id.t = "number"
    /\ IdOf(last.arg.id) \in IdsOf(last.before)
    /\ Len(items) >= 2

(***************************************************************************)
(* C6: a call of addItem, removeItem or updateItem that reports a failure  *)
(* leaves the collection as it was before the call: same nodes, same       *)
(* content, same order.                                                    *)
(***************************************************************************)
C6_FailureIsAtomic == Failed => Unchanged

\* updateItem has failed on its last check, the one for a cycle
C6_Witness ==
    /\ last.op = "updateItem"
    /\ last.err = "CycleError"
    /\ last.arg.label # getItemById(last.before, IdOf(last.arg.id)).label

(***************************************************************************)
(* C7: addItem with an id whose string form is already an id of the        *)
(* collection fails with DuplicateIdError whatever the submitted parent,   *)
(* and leaves the size of the collection and every node unchanged.         *)
(***************************************************************************)
C7_DuplicateIdFails ==
    (last.op = "addItem" /\ IdOf(last.arg.id) \in IdsOf(last.before))
    => /\ last.err = "DuplicateIdError"
       /\ Len(items) = Len(last.before)
       /\ \A i \in 1..Len(last.before) : items[i] = last.before[i]

\* addItem was called with an existing id and a parent that does not resolve
C7_Witness ==
    /\ last.op = "addItem"
    /\ IdOf(last.arg.id) \in IdsOf(last.before)
    /\ last.arg.parent # Null
    /\ ParentOf(last.arg.parent) \notin IdsOf(last.before)
    /\ NormalizeItem(last.arg).parent \notin IdsOf(last.before) \cup {Null}

(***************************************************************************)
(* C8: addItem with a fresh id and a non-null parent that is not the id of *)
(* a node of the collection fails with ParentNotFoundError and does not    *)
(* append the node.                                                        *)
(***************************************************************************)
C8_MissingParentFails ==
    (/\ last.op = "addItem"
     /\ IdOf(last.arg.id) \notin IdsOf(last.before)
     /\ last.arg.parent # Null
     /\ ParentOf(last.arg.parent) \notin IdsOf(last.before))
    => (last.err = "ParentNotFoundError" /\ Unchanged)

(***************************************************************************)
(* C9: a successful addItem(item) appends one node at the end and changes  *)
(* nothing else: the collection grows by one, the previous nodes keep      *)
(* their content and order, and getItemById(String(item.id)) returns the   *)
(* appended node, with the submitted label and the parent in string form.  *)
(***************************************************************************)
C9_AddAppends ==
    (last.op = "addItem" /\ last.err = "none")
    => /\ Len(items) = Len(last.before) + 1
       /\ SubSeq(items, 1, Len(last.before)) = last.before
       /\ getItemById(items, IdOf(last.arg.id)) = items[Len(items)]
       /\ getItemById(items, IdOf(last.arg.id)).label = last.arg.label
       /\ getItemById(items, IdOf(last.arg.id)).parent = ParentOf(last.arg.parent)

(***************************************************************************)
(* C10: in a valid forest, removeItem of an existing id succeeds and       *)
(* leaves the collection without that node and its transitive descendants: *)
(* every other node remains, with its content and in the same order.       *)
(***************************************************************************)
C10_RemoveRemovesSubtree ==
    (/\ last.op = "removeItem"
     /\ ValidForest(last.before)
     /\ last.arg.id \in IdsOf(last.before))
    => /\ last.err = "none"
       /\ items = Without(last.before,
                          {last.arg.id} \cup Descendants(last.before, last.arg.id))

\* removeItem has removed a node that had a grandchild
C10_Witness ==
    /\ last.op = "removeItem"
    /\ last.err = "none"
    /\ ValidForest(last.before)
    /\ \E d \in Descendants(last.before, last.arg.id) :
           getItemById(last.before, d).parent # last.arg.id


(***************************************************************************)
(* C11: removeItem and updateItem called with an id that is the id of no   *)
(* node fail with NotFoundError, whatever the parent and label submitted   *)
(* to updateItem, and leave the collection unchanged.                      *)
(***************************************************************************)
C11_UnknownIdFails ==
    (/\ last.op \in {"removeItem", "updateItem"}
     /\ IdOf(last.arg.id) \notin IdsOf(last.before))
    => (last.err = "NotFoundError" /\ Unchanged)

\* updateItem was called with an unknown id and a parent that does not
\* resolve either, on a collection that is not empty
C11_Witness ==
    /\ last.op = "updateItem"
    /\ IdOf(last.arg.id) \notin IdsOf(last.before)
    /\ NormalizeItem(last.arg).parent \notin IdsOf(last.before) \cup {Null}
    /\ last.before # <<>>

(***************************************************************************)
(* C12: updateItem of an existing node with a non-null new parent that     *)
(* differs from the current parent and is the id of no node fails with     *)
(* NewParentNotFoundError and leaves the collection unchanged.             *)
(***************************************************************************)
C12_MissingNewParentFails ==
    (/\ last.op = "updateItem"
     /\ IdOf(last.arg.id) \in IdsOf(last.before)
     /\ last.arg.parent # Null
     /\ ParentOf(last.arg.parent) # getItemById(last.before, IdOf(last.arg.id)).parent
     /\ ParentOf(last.arg.parent) \notin IdsOf(last.before))
    => (last.err = "NewParentNotFoundError" /\ Unchanged)

C14_MoveToRootSucceeds ==
    (/\ last.op = "updateItem"
     /\ IdOf(last.arg.id) \in IdsOf(last.before)
     /\ last.arg.parent = Null)
    => /\ last.err = "none"
       /\ getItemById(items, IdOf(last.arg.id)).parent = Null
       /\ Descendants(last.before, IdOf(last.arg.id)) \ {IdOf(last.arg.id)}
              \subseteq Descendants(items, IdOf(last.arg.id))

\* updateItem has moved to the root a node that had a parent and a child
C14_Witness ==
    /\ last.op = "updateItem"
    /\ last.arg.parent = Null
    /\ ValidForest(last.before)
    /\ getItemById(last.before, IdOf(last.arg.id)).parent \in IdsOf(last.before)
    /\ Descendants(items, IdOf(last.arg.id)) # {}

(***************************************************************************)
(* C15: a successful updateItem(u) replaces the label and the parent of    *)
(* the node with id u.id by the submitted values (the parent in string     *)
(* form) and changes nothing else: same length, the updated node at its    *)
(* position, every other node as it was.                                   *)
(***************************************************************************)
C15_UpdateReplacesInPlace ==
    (last.op = "updateItem" /\ last.err = "none")
    => /\ Len(items) = Len(last.before)
       /\ \A i \in 1..Len(last.before) :
              items[i] = IF last.before[i].id = IdOf(last.arg.id)
                         THEN [id |-> IdOf(last.arg.id),
                               parent |-> ParentOf(last.arg.parent),
                               label |-> last.arg.label]
                         ELSE last.before[i]


(***************************************************************************)
(* Vocabulary of the properties of the queries.                            *)
(***************************************************************************)
\* the position in its of the node with the given id (ids being distinct)
PosOf(its, id) == CHOOSE i \in 1..Len(its) : its[i].id = id

\* the position in seq of the node with the given id, 0 when there is none
PosIn(seq, id) ==
    IF \E p \in 1..Len(seq) : seq[p].id = id
    THEN CHOOSE p \in 1..Len(seq) : seq[p].id = id
    ELSE 0

\* the sum of the lengths of the first k sequences of seqs
RECURSIVE TotalLen(_, _)
TotalLen(seqs, k) == IF k = 0 THEN 0 ELSE TotalLen(seqs, k - 1) + Len(seqs[k])

\* the query made last, on a valid forest
QueriedForest(op) == last.op = op /\ last.err = "none" /\ ValidForest(items)

(***************************************************************************)
(* C16 as claimed: on a valid forest getAllChildren(id) is in pre-order,   *)
(* each direct child being followed immediately by its own full descendant *)
(* sequence, before the next direct child.                                 *)
(***************************************************************************)
C16_PreOrder ==
    QueriedForest("getAllChildren")
    => LET children == getChildren(items, last.arg.id)
       IN  \A k \in 1..Len(children) :
               LET p == PosIn(returned, children[k].id)
                   own == getAllChildren(items, children[k].id)
               IN  /\ p > 0
                   /\ p + Len(own) <= Len(returned)
                   /\ SubSeq(returned, p + 1, p + Len(own)) = own
                   /\ k < Len(children)
                          => /\ p + Len(own) < Len(returned)
                             /\ returned[p + Len(own) + 1] = children[k + 1]

(***************************************************************************)
(* C16 as amended: on a valid forest getAllChildren(id) lists all the      *)
(* direct children first, in collection order, and after them the deeper   *)
(* descendants, grouped by the direct child they descend from, the groups  *)
(* in the order of the direct children.                                    *)
(***************************************************************************)
C16_ChildrenThenTheirDescendants ==
    QueriedForest("getAllChildren")
    => LET id == last.arg.id
           n == Cardinality({i \in 1..Len(items) : items[i].parent = id})
           \* the position among the direct children of the one above node x
           group(x) == CHOOSE p \in 1..n :
                           IsAncestor(items, returned[p].id, x.id)
       IN  /\ n <= Len(returned)
           /\ \A p \in 1..n : returned[p].parent = id
           /\ \A p, q \in 1..n :
                  p < q => PosOf(items, returned[p].id) < PosOf(items, returned[q].id)
           /\ \A p \in (n + 1)..Len(returned) :
                  /\ returned[p].parent # id
                  /\ \E c \in 1..n : IsAncestor(items, returned[c].id, returned[p].id)
           /\ \A p, q \in (n + 1)..Len(returned) :
                  p < q => group(returned[p]) <= group(returned[q])

\* getAllChildren was called on a node whose first child has a child and a
\* later sibling
C16_Witness ==
    /\ QueriedForest("getAllChildren")
    /\ Len(getChildren(items, last.arg.id)) >= 2
    /\ getChildren(items, getChildren(items, last.arg.id)[1].id) # <<>>
    /\ Len(returned) >= 3

(***************************************************************************)
(* C17: on a valid forest getAllChildren(id) is getChildren(id) followed   *)
(* by getAllChildren(c) for each direct child c in getChildren order; it   *)
(* contains every transitive descendant of id once and no other node.      *)
(***************************************************************************)
C17_AllDescendantsOnce ==
    QueriedForest("getAllChildren")
    => LET id == last.arg.id
           children == getChildren(items, id)
           own == [k \in 1..Len(children) |-> getAllChildren(items, children[k].id)]
       IN  /\ Len(returned) = Len(children) + TotalLen(own, Len(children))
           /\ SubSeq(returned, 1, Len(children)) = children
           /\ \A k \in 1..Len(children) :
                  SubSeq(returned,
                         Len(children) + TotalLen(own, k - 1) + 1,
                         Len(children) + TotalLen(own, k)) = own[k]
           /\ {returned[p].id : p \in 1..Len(returned)} = Descendants(items, id)
           /\ Len(returned) = Cardinality(Descendants(items, id))
           /\ \A p \in 1..Len(returned) : returned[p] = items[PosOf(items, returned[p].id)]

\* getAllChildren has returned children and grandchildren
C17_Witness ==
    /\ QueriedForest("getAllChildren")
    /\ \E p, q \in 1..Len(returned) :
           /\ returned[p].parent = last.arg.id
           /\ returned[q].parent = returned[p].id
    /\ Len(returned) >= 3


(***************************************************************************)
(* C18: on a valid forest getAllParents(id) of a node id is the chain of   *)
(* the ancestors of id, the nearest first and the root last; it does not   *)
(* contain the node id and is empty when id is a root.                     *)
(***************************************************************************)
C18_AncestorChain ==
    (QueriedForest("getAllParents") /\ last.arg.id \in IdsOf(items))
    => LET id == last.arg.id
           node == items[PosOf(items, id)]
           n == Len(returned)
       IN  /\ node.parent = Null <=> n = 0
           /\ n > 0 => /\ returned[1].id = node.parent
                       /\ returned[n].parent = Null
           /\ \A k \in 1..(n - 1) : returned[k + 1].id = returned[k].parent
           /\ \A k \in 1..n : returned[k] = items[PosOf(items, returned[k].id)]
           /\ {returned[k].id : k \in 1..n} = AncestorIds(items, id, Len(items))
           /\ \A k \in 1..n : returned[k].id # id

\* getAllParents has returned a parent, a grandparent and a great-grandparent
C18_Witness ==
    /\ QueriedForest("getAllParents")
    /\ Len(returned) = 3
    /\ returned[3].parent = Null

(***************************************************************************)
(* C19: on a collection without a cycle whose parents need not resolve,    *)
(* getAllParents reports no error: for an id that no node has it returns   *)
(* the empty sequence, and when the parent of the node or of an ancestor   *)
(* does not resolve it returns the ancestors resolved so far and stops.    *)
(***************************************************************************)
C19_PartialChain ==
    (last.op = "getAllParents" /\ UniqueIds(items) /\ Acyclic(items))
    => LET id == last.arg.id
           n == Len(returned)
           \* the parent from which the chain goes on after k ancestors
           link(k) == IF k = 0 THEN items[PosOf(items, id)].parent
                      ELSE returned[k].parent
       IN  /\ last.err = "none"
           /\ id \notin IdsOf(items) => n = 0
           /\ id \in IdsOf(items) =>
                  /\ \A k \in 1..n : /\ returned[k].id = link(k - 1)
                                     /\ \E i \in 1..Len(items) : items[i] = returned[k]
                  /\ link(n) \notin IdsOf(items)

\* getAllParents has returned two ancestors, the parent of the second of
\* which is the id of no node
C19_Witness ==
    /\ last.op = "getAllParents"
    /\ Len(returned) = 2
    /\ returned[2].parent = MissingId

(***************************************************************************)
(* C20: getChildren(id) returns the nodes whose parent is id, all of them  *)
(* and no other, in the order in which they occur in the collection; it    *)
(* is empty when no node has that parent.                                  *)
(***************************************************************************)
C20_ChildrenInCollectionOrder ==
    (last.op = "getChildren" /\ UniqueIds(items))
    => LET id == last.arg.id
           n == Len(returned)
       IN  /\ last.err = "none"
           /\ n = Cardinality({i \in 1..Len(items) : items[i].parent = id})
           /\ \A p \in 1..n : /\ returned[p].parent = id
                              /\ \E i \in 1..Len(items) : items[i] = returned[p]
           /\ \A p, q \in 1..n :
                  p < q => PosOf(items, returned[p].id) < PosOf(items, returned[q].id)

\* getChildren has returned two children that are not neighbours in the
\* collection
C20_Witness ==
    /\ last.op = "getChildren"
    /\ Len(returned) = 2
    /\ PosOf(items, returned[2].id) > PosOf(items, returned[1].id) + 1


(***************************************************************************)
(* Vocabulary of the bulk load.                                            *)
(***************************************************************************)
\* the node an item submitted to the store denotes: id and parent in their
\* string form, a null parent kept null
NodeOf(raw) ==
    [id |-> IdOf(raw.id), parent |-> ParentOf(raw.parent), label |-> raw.label]

Loaded == last.op = "initialize"

(***************************************************************************)
(* C21: round trip of initialize: after initialize(X), for every item x of *)
(* X getItemById(String(x.id)) is a node whose id, parent and label are    *)
(* those of x with id and parent in string form, and getItemById of an id  *)
(* that no item of X has is absent, without an error.                      *)
(***************************************************************************)
C21_InitializeRoundTrip ==
    /\ Loaded =>
           /\ \A i \in 1..Len(last.arg) :
                  getItemById(items, IdOf(last.arg[i].id)) = NodeOf(last.arg[i])
           /\ \A id \in NodeIds \cup {MissingId} :
                  (\A i \in 1..Len(last.arg) : IdOf(last.arg[i].id) # id)
                  => getItemById(items, id) = NoItem
    /\ (last.op = "getItemById" /\ last.arg.id \notin IdsOf(items))
       => (last.err = "none" /\ returned = NoItem)

(***************************************************************************)
(* C22: normalization to string form: an item passed to initialize,        *)
(* addItem or updateItem is stored with its id in string form and with its *)
(* parent in string form, for every number, 0 included; a parent is stored *)
(* as null only when it was given as null.                                 *)
(***************************************************************************)
C22_StringForm ==
    /\ Loaded =>
           \A i \in 1..Len(last.arg) :
               i <= Len(items) =>
                   /\ items[i].id = IdOf(last.arg[i].id)
                   /\ items[i].parent = ParentOf(last.arg[i].parent)
                   /\ items[i].parent = Null <=> last.arg[i].parent = Null
    /\ (last.op \in {"addItem", "updateItem"} /\ ~Failed) =>
           \E i \in 1..Len(items) :
               /\ items[i].id = IdOf(last.arg.id)
               /\ items[i].parent = ParentOf(last.arg.parent)

(***************************************************************************)
(* C23: initialize(X) replaces the whole collection and validates nothing: *)
(* whatever the collection was, afterwards it is the items of X in their   *)
(* normalized form, in the order of X and as many as X has, and the call   *)
(* reports no failure, also when X has parents that do not resolve, cycles *)
(* or repeated ids.                                                        *)
(***************************************************************************)
C23_InitializeReplaces ==
    Loaded =>
        /\ last.err = "none"
        /\ Len(items) = Len(last.arg)
        /\ \A i \in 1..Len(last.arg) :
               i <= Len(items) => items[i] = NodeOf(last.arg[i])


C25_TraversalsTerminate ==
    /\ \A id \in NodeIds :
           /\ ~getAllChildrenOverflows(items, id)
           /\ ~getAllParentsOverflows(items, id)
           /\ removeItem(items, id).err # "RangeError"
    /\ last.err # "RangeError"


(***************************************************************************)
(* Vocabulary of the page.                                                 *)
(***************************************************************************)
\* the id, parent and label of every node of the collection, in order
Content(its) ==
    [i \in 1..Len(its) |->
        [id |-> its[i].id, parent |-> its[i].parent, label |-> its[i].label]]

\* a step in which pushHistory is called
PushesHistory ==
    Mount \/ Watcher \/ AddChild \/ UpdateLabel \/ (RemoveLater /\ items' # items)

\* the page has been mounted
Mounted == last.op # "setup"

\* every callback has run: no timer waits and the watcher is not queued
Settled == timers = <<>> /\ ~watcherQueued

(***************************************************************************)
(* C26 as stated: pushHistory called with the cursor at i leaves the       *)
(* entries 0..i as they are, discards every entry after i, puts a copy of  *)
(* the collection at i + 1 as the last entry, and sets historyIndex to     *)
(* length(history) - 1.                                                    *)
(***************************************************************************)
C26_PushAtCursorPlusOne ==
    [][PushesHistory =>
           /\ \A k \in 1..(historyIndex + 1) :
                  k <= Len(history) => history'[k] = history[k]
           /\ Len(history') = historyIndex + 2
           /\ history'[Len(history')] = items'
           /\ historyIndex' = Len(history') - 1]_vars

(***************************************************************************)
(* C26 amended: pushHistory called on a history that is not empty, with    *)
(* the cursor at i, leaves the entries 0..i as they are, discards every    *)
(* entry after i, puts a copy of the collection at i + 1 as the last       *)
(* entry, and sets historyIndex to length(history) - 1; called on the      *)
(* empty history (the call of onMounted, with historyIndex 0) it puts the  *)
(* copy at position 0 and leaves historyIndex 0.                           *)
(***************************************************************************)
C26_PushTruncatesAndAppends ==
    [][PushesHistory =>
           /\ history # <<>> =>
                  /\ \A k \in 1..(historyIndex + 1) : history'[k] = history[k]
                  /\ Len(history') = historyIndex + 2
           /\ history = <<>> => Len(history') = 1
           /\ history'[Len(history')] = items'
           /\ historyIndex' = Len(history') - 1]_vars

\* pushHistory has discarded an entry: the history is as long as it was
\* before the undo made last, the watcher has run since, and the entry at
\* the cursor is the collection
C26_Witness ==
    /\ last.op = "undo"
    /\ last.index = Len(history) - 1
    /\ last.index > 0
    /\ ~watcherQueued
    /\ historyIndex = last.index
    /\ history[historyIndex + 1] = items


(***************************************************************************)
(* C27: undo cancels the last action: when an edit of the page (addChild,  *)
(* removeItem or updateLabel) has completed, with the watcher callbacks    *)
(* and timers it set off, one undo puts the collection (the id, parent and *)
(* label of every node, in order) back to what it was before the edit.     *)
(***************************************************************************)
C27_UndoRestores ==
    (/\ last.op = "undo"
     /\ last.prev.op \in {"addChild", "removeItem", "updateLabel"}
     /\ last.idle)
    => Content(items) = Content(last.prev.before)

C29_RemoveEventuallyRemovesSubtree ==
    (last.op = "removeItem" /\ last.idle /\ Settled)
    => Content(items) =
           Content(Without(last.before,
                           {last.arg.id} \cup Descendants(last.before, last.arg.id)))

\* the removal of node 2, which has children and grandchildren, is complete
C29_Witness ==
    /\ last.op = "removeItem"
    /\ last.arg.id = Str("2")
    /\ last.idle
    /\ Settled
    /\ Len(last.before) = Len(items) + 6

(***************************************************************************)
(* C30: once the page is mounted, whatever addChild, removeItem,           *)
(* updateLabel, undo and redo clicks, watcher callbacks and timers follow, *)
(* history is not empty and 0 <= historyIndex <= length(history) - 1.      *)
(***************************************************************************)
C30_CursorInBounds ==
    Mounted => /\ Len(history) >= 1
               /\ 0 <= historyIndex
               /\ historyIndex <= Len(history) - 1

\* undo has left the cursor before the last entry, on the first entry
C30_Witness ==
    /\ Mounted
    /\ last.op = "undo"
    /\ historyIndex = 0
    /\ Len(history) = 2


(***************************************************************************)
(* C31: under every interleaving of the page's addChild and removeItem     *)
(* clicks with the removals they defer, in every state the parent of every *)
(* node is null or the id of a node of the collection: a child added under *)
(* a node whose removal waits does not stay behind without its parent.     *)
(***************************************************************************)
C31_PageParentsResolve == ParentsResolve(items)


(***************************************************************************)
(* C32: row numbering: on a valid forest of N nodes the rows built by      *)
(* buildTreeTableRows(null) carry the indices 1..N, each once, and in the  *)
(* order in which renderRows shows them with every node expanded (a parent *)
(* before its children) the k-th row has the index k.                      *)
(***************************************************************************)
C32_RowsNumberedInOrder ==
    (/\ last.op = "renderRows"
     /\ ValidForest(items)
     /\ last.arg.expanded = IdsOf(items))
    => /\ Len(returned) = Len(items)
       /\ {returned[k].index : k \in 1..Len(returned)} = 1..Len(items)
       /\ \A k \in 1..Len(returned) : returned[k].index = k

====
